---- MODULE Spec2Model ----
(***************************************************************************)
(* The scan orchestration of the Sentinel dashboard: the App component's   *)
(* state (logs, vulnerabilities, crawlNodes, stats, isScanning, targetUrl),*)
(* the startScan async function with its awaits, the delayed log callbacks,*)
(* the duration interval and analyzeTargetForSimulation.                   *)
(*                                                                         *)
(* The repository holds two versions of App: the one of part_000 lines     *)
(* 12-253 ("current") and the one of lines 267-561 ("earlier").  The       *)
(* variable app says which one is mounted; it never changes.               *)
(*                                                                         *)
(* Each action is one macrotask of the browser: a click handler, or the    *)
(* continuation of startScan from one await to the next, or one timer      *)
(* callback.  React applies the state updaters a handler queued in the     *)
(* order they were queued, each once, so the action applies them in that   *)
(* order.                                                                  *)
(***************************************************************************)
EXTENDS Integers, Sequences, FiniteSets, TLC

VARIABLES
    app,              \* "current" (part_000:12-253) or "earlier" (part_000:267-561)
    apiKeyAvailable,  \* API_KEY_AVAILABLE
    targetUrl,        \* useState('')
    isScanning,       \* useState(false)
    logs,             \* useState<LogEntry[]>([])
    vulnerabilities,  \* useState<Vulnerability[]>([])
    crawlNodes,       \* useState<CrawlNode[]>([])
    stats,            \* useState<ScanStats>({...0})
    runs,             \* the startScan invocations: position and closure of each
    pendingLogs,      \* per run, the setTimeout log callbacks not yet fired
    timerOrder,       \* the runs with pending log callbacks, by next expiry
    session,          \* number of startScan calls that passed the guards
    clicks,           \* number of clicks that started or stopped a scan
    logCalls          \* the entries handed to addLog since the last setLogs([])

vars == <<app, apiKeyAvailable, targetUrl, isScanning, logs, vulnerabilities,
          crawlNodes, stats, runs, pendingLogs, timerOrder, session, clicks, logCalls>>

ui == <<isScanning, logs, vulnerabilities, crawlNodes, stats>>

----------------------------------------------------------------------------
(* Bounds of the model *)

MaxClicks == 3
MaxLogCalls == 52
MaxDuration == 1

(* Program constants *)

LogKeep == 49
TicksCurrent == 5
StepsEarlier == 4

Apps == {"current", "earlier"}
\* The texts typed into the target input.
Targets == {"a"}
Runs == 1 .. MaxClicks

----------------------------------------------------------------------------
(* types *)

LogLevel == {"INFO", "WARN", "ERROR", "SUCCESS", "SYSTEM"}
Modules == {"CRAWLER", "DAST", "FORM_BOT", "CORE"}

\* A log line before addLog gives it an id: level, message, module.  A message
\* is its fixed text followed by the values interpolated into it.  The display
\* timestamp of a LogEntry is left out: nothing reads it.
Line(level, text, args, module) ==
    [level |-> level, message |-> <<text>> \o args, module |-> module]

ZeroStats == [pagesCrawled |-> 0, formsDetected |-> 0, vulnsFound |-> 0,
              durationSeconds |-> 0]

\* Mutant of rootNode: the root is seeded as pending.
rootNodePending == [id |-> "root", url |-> "/", status |-> "pending", depth |-> 0]

rootNode == [id |-> "root", url |-> "/", status |-> "visited", depth |-> 0]

----------------------------------------------------------------------------
(* addLog *)

\* prev.slice(-n): the last n elements of prev.
SliceLast(prev, n) ==
    IF Len(prev) <= n THEN prev ELSE SubSeq(prev, Len(prev) - n + 1, Len(prev))

NewLog(line, id) ==
    [id |-> id, level |-> line.level, message |-> line.message,
     module |-> line.module]

\* Mutants of addLogCurrent: slice(-50), which keeps one entry too many, and
\* slice(0, 49), which keeps the oldest entries instead of the newest.
addLogSliceOffByOne(prev, newLog) == Append(SliceLast(prev, LogKeep + 1), newLog)

addLogSliceFront(prev, newLog) ==
    Append(IF Len(prev) <= LogKeep THEN prev ELSE SubSeq(prev, 1, LogKeep), newLog)

\* setLogs(prev => [...prev.slice(-49), newLog])
addLogCurrent(prev, newLog) == Append(SliceLast(prev, LogKeep), newLog)

\* setLogs(prev => [...prev, newLog])
addLogEarlier(prev, newLog) == Append(prev, newLog)

addLog(a, prev, newLog) ==
    IF a = "current" THEN addLogCurrent(prev, newLog) ELSE addLogEarlier(prev, newLog)

\* Several addLog calls of one handler, in call order; ids from id0 on.
RECURSIVE AddLogs(_, _, _, _)
AddLogs(a, prev, lines, id0) ==
    IF lines = <<>> THEN prev
    ELSE AddLogs(a, addLog(a, prev, NewLog(Head(lines), id0)), Tail(lines), id0 + 1)

\* The same calls as the entries addLog was handed.
RECURSIVE Entries(_, _)
Entries(lines, id0) ==
    IF lines = <<>> THEN <<>>
    ELSE <<NewLog(Head(lines), id0)>> \o Entries(Tail(lines), id0 + 1)

\* The id of a LogEntry is a random string; the model numbers the entries
\* handed to addLog since the last setLogs([]), which keeps them distinct.
NextId(calls) == Len(calls) + 1

\* Mutant of ResetLogs: the reset of the logs is missing.
ResetLogsMissing(prev) == prev

\* setLogs([])
ResetLogs(prev) == <<>>

----------------------------------------------------------------------------
(* analyzeTargetForSimulation *)

Vuln(type, severity, location) ==
    [type |-> type, severity |-> severity, location |-> location]

Batch(ls, vs) == [shape |-> "batch", logs |-> ls, vulnerabilities |-> vs]

\* What JSON.parse can return when the text is an object with the two arrays.
\* The enums of the responseSchema are a request to the service; JSON.parse
\* checks nothing, the schema marks no property required and the casts in
\* startScan check nothing, so a log of the parsed value can carry a level or
\* module outside the enums (second batch).
Batches == {
    Batch(<<Line("INFO", "GET /", <<>>, "CRAWLER"),
            Line("INFO", "input[name='email']", <<>>, "FORM_BOT")>>,
          <<Vuln("XSS", "HIGH", "/search"), Vuln("SQLi", "CRITICAL", "/item?id=1")>>),
    Batch(<<Line("DEBUG", "trace", <<>>, "NET")>>,
          <<Vuln("SQLi", "HIGH", "/a"), Vuln("SQLi", "LOW", "/b")>>) }

\* Parseable JSON that is not an object with the two arrays (e.g. {}).
OtherJson == [shape |-> "other", logs |-> <<>>, vulnerabilities |-> <<>>]

\* The outcomes of ai.models.generateContent and of reading its text:
\*   reject   the call throws or its promise rejects
\*   noText   response.text is empty or undefined
\*   badJson  the cleaned text is not JSON: JSON.parse throws
\*   json     the cleaned text parses to value
Responses ==
    { [kind |-> k, value |-> OtherJson] : k \in {"reject", "noText", "badJson"} }
    \cup { [kind |-> "json", value |-> v] : v \in Batches \cup {OtherJson} }

\* The catch block's return value.
FallbackBatch(target) ==
    Batch(<<Line("ERROR", "Gemini Uplink Failed. Reverting to local heuristics.", <<>>, "CORE"),
            Line("WARN", "Connection unstable. Retrying handshake...", <<>>, "CRAWLER"),
            Line("INFO", "Falling back to offline simulation database...", <<>>, "CORE"),
            Line("WARN", "Simulating scan for ", <<target>>, "CORE"),
            Line("INFO", "GET /login [200 OK] - 45ms", <<>>, "CRAWLER"),
            Line("INFO", "Found input[name='username']", <<>>, "FORM_BOT"),
            Line("INFO", "Testing payload: ' OR 1=1 --", <<>>, "DAST")>>,
          <<>>)

EmptyBatch == Batch(<<>>, <<>>)

\* How the promise settles, and with what.
Resolved(data) == [settled |-> "resolved", data |-> data]
Rejected == [settled |-> "rejected", data |-> OtherJson]

\* Mutant of analyzeTargetForSimulation: no try/catch, a failure rejects.
analyzeWithoutCatch(target, resp) ==
    IF resp.kind \in {"reject", "badJson"} THEN Rejected
    ELSE IF resp.kind = "noText" THEN Resolved(EmptyBatch)
    ELSE Resolved(resp.value)

analyzeTargetForSimulation(target, resp) ==
    IF resp.kind \in {"reject", "badJson"} THEN Resolved(FallbackBatch(target))
    ELSE IF resp.kind = "noText" THEN Resolved(EmptyBatch)
    ELSE Resolved(resp.value)

----------------------------------------------------------------------------
(* the pieces of startScan *)

StartupLines(a, target) ==
    <<Line("SYSTEM", "Initializing Sentinel Agent v2.4", <<>>, "CORE"),
      Line("INFO", "Target acquired: ", <<target>>, "CORE")>>
    \o (IF a = "current" THEN <<>>
        ELSE <<Line("INFO", "Loading stealth modules (puppeteer-extra-plugin-stealth)...",
                    <<>>, "CRAWLER")>>)

NoKeyLine == Line("ERROR", "API_KEY not found in environment.", <<>>, "CORE")

NoTargetLine == Line("ERROR", "Target URL is required.", <<>>, "CORE")

\* Mutant of EmptyTargetLines: the first guard logs in the current App too.
EmptyTargetLinesLogged(a) == <<NoTargetLine>>

\* What the first guard of startScan hands to addLog before it returns:
\* nothing in the current App, one line in the earlier one.
EmptyTargetLines(a) == IF a = "current" THEN <<>> ELSE <<NoTargetLine>>

\* What the continuation does first when the 800 ms timer has fired.  The PID
\* in the earlier message is random; it is left out.
WakeLines(a) ==
    IF a = "current" THEN <<>>
    ELSE <<Line("SUCCESS", "Headless Browser Launched (PID: )", <<>>, "CRAWLER")>>

\* The lines logged at the top of tick i, before the request.
TickLines(a, i) ==
    IF a = "current"
    THEN <<Line("INFO", "Deep-scanning path segment ", <<ToString(i + 1)>>, "CRAWLER")>>
    ELSE <<>>

CompletionLine(a) ==
    IF a = "current"
    THEN Line("SUCCESS", "Mission Parameters Met. Finalizing data...", <<>>, "CORE")
    ELSE Line("SUCCESS", "Scan Complete. Generating Report...", <<>>, "CORE")

\* Mutant of CatchLine: the catch block logs the completion.
CatchLineAsCompletion(a) == CompletionLine(a)

CatchLine(a) ==
    IF a = "current"
    THEN Line("ERROR", "Simulation error: check console.", <<>>, "CORE")
    ELSE Line("ERROR", "Agent connection severed unexpectedly.", <<>>, "CORE")

StopLine == Line("WARN", "Manual Override: Scan Aborted.", <<>>, "CORE")

AlertLine(a, v) ==
    IF a = "current"
    THEN Line("WARN", "ALERT: Found ", <<v.type, " at ", v.location>>, "DAST")
    ELSE Line("WARN", "VULNERABILITY DETECTED: ", <<v.type>>, "DAST")

Ticks(a) == IF a = "current" THEN TicksCurrent ELSE StepsEarlier

\* Mutant of LoopContinues: i <= steps and no break.
LoopOffByOne(a, i, scanning) == i <= Ticks(a)

\* The loop test and the break at the top of the body, for loop index i;
\* scanning is the isScanning of the render whose closure startScan is.
LoopContinues(a, i, scanning) ==
    IF a = "current"
    THEN i < TicksCurrent /\ ~(~scanning)
    ELSE i < StepsEarlier /\ ~(~scanning /\ i > 0)

\* The setVulnerabilities updater for one finding v: the next list, and
\* whether the updater went on to addLog and to count the finding.  The
\* random id the updater gives the new entry is left out.
HasType(prev, type) == \E k \in 1 .. Len(prev) : prev[k].type = type

\* Mutant of vulnUpdater: the find is missing, every finding is added.
vulnUpdaterNoDedup(prev, v) == [next |-> Append(prev, v), added |-> TRUE]

vulnUpdater(prev, v) ==
    IF HasType(prev, v.type)
    THEN [next |-> prev, added |-> FALSE]
    ELSE [next |-> Append(prev, v), added |-> TRUE]

\* simData.vulnerabilities.forEach(v => setVulnerabilities(updater)): the
\* final list and the findings the updaters added, in order.
RECURSIVE MergeVulnerabilities(_, _)
MergeVulnerabilities(prev, vs) ==
    IF vs = <<>> THEN [vulns |-> prev, added |-> <<>>]
    ELSE LET u == vulnUpdater(prev, Head(vs))
             rest == MergeVulnerabilities(u.next, Tail(vs))
         IN  [vulns |-> rest.vulns,
              added |-> (IF u.added THEN <<Head(vs)>> ELSE <<>>) \o rest.added]

RECURSIVE AlertLines(_, _)
AlertLines(a, vs) ==
    IF vs = <<>> THEN <<>> ELSE <<AlertLine(a, Head(vs))>> \o AlertLines(a, Tail(vs))

\* Mutant of logStats: the updaters lack the spread of the previous stats, so
\* the other counters are lost.
logStatsNoSpread(s, line) ==
    IF line.module = "CRAWLER"
    THEN [ZeroStats EXCEPT !.pagesCrawled = s.pagesCrawled + 1]
    ELSE IF line.module = "FORM_BOT"
    THEN [ZeroStats EXCEPT !.formsDetected = s.formsDetected + 1]
    ELSE s

\* The two setStats calls of a delayed log callback.
logStats(s, line) ==
    LET s1 == IF line.module = "CRAWLER"
              THEN [s EXCEPT !.pagesCrawled = @ + 1] ELSE s
    IN  IF line.module = "FORM_BOT"
        THEN [s1 EXCEPT !.formsDetected = @ + 1] ELSE s1

\* setStats(s => ({...s, vulnsFound: s.vulnsFound + 1})), once per added finding.
RECURSIVE vulnStats(_, _)
vulnStats(s, n) ==
    IF n = 0 THEN s ELSE vulnStats([s EXCEPT !.vulnsFound = @ + 1], n - 1)

\* setStats(prev => ({...prev, durationSeconds: prev.durationSeconds + 1}))
durationStats(s) == [s EXCEPT !.durationSeconds = @ + 1]

\* The random path of a tick's crawl node; two of the eight stand for all.
Paths == {"/login", "/.env"}

TickNode(path, sim, i) ==
    [id |-> "node", url |-> path,
     status |-> IF Len(sim.vulnerabilities) > 0 THEN "vuln" ELSE "visited",
     depth |-> i + 1]

InFlight(r) == runs[r].pc \notin {"idle", "done"}

\* Mutants of Finally: no finally block, and setIsScanning(false) as the last
\* statement of the try block, which an exception skips.
FinallyMissing(threw, scanning) == scanning

FinallyInsideTry(threw, scanning) == IF threw THEN scanning ELSE FALSE

\* finally { setIsScanning(false) }: the isScanning the run leaves, whether the
\* try block completed or threw.
Finally(threw, scanning) == FALSE

----------------------------------------------------------------------------
(* Init *)

\* A run: its position (pc, i), its closure (target, isScanning) and what it
\* has done: requests made, batches merged, whether the user stopped the scan
\* while it was in flight, whether it went through catch, how its last request
\* ended (none, failed, noText, json) and the batch it got.
IdleRun == [pc |-> "idle", target |-> "", isScanning |-> FALSE, i |-> 0,
            requests |-> 0, ticks |-> 0, aborted |-> FALSE, caught |-> FALSE,
            resp |-> "none", simData |-> EmptyBatch]

\* A finished run once the next run has started: its last response and batch
\* are forgotten.
Forgotten(run) == [run EXCEPT !.resp = "none", !.simData = EmptyBatch]

RespClass(resp) ==
    IF resp.kind \in {"reject", "badJson"} THEN "failed" ELSE resp.kind

Init ==
    /\ app \in Apps
    /\ apiKeyAvailable \in BOOLEAN
    /\ targetUrl = ""
    /\ isScanning = FALSE
    /\ logs = <<>>
    /\ vulnerabilities = <<>>
    /\ crawlNodes = <<>>
    /\ stats = ZeroStats
    /\ runs = [r \in Runs |-> IdleRun]
    /\ pendingLogs = [r \in Runs |-> <<>>]
    /\ timerOrder = <<>>
    /\ session = 0
    /\ clicks = 0
    /\ logCalls = <<>>

----------------------------------------------------------------------------
(* actions *)

\* One step that hands lines to addLog.
Log(lines) ==
    /\ Len(logCalls) + Len(lines) <= MaxLogCalls
    /\ logs' = AddLogs(app, logs, lines, NextId(logCalls))
    /\ logCalls' = logCalls \o Entries(lines, NextId(logCalls))

\* onChange of the input, which is disabled while scanning.
SetTargetUrl(u) ==
    /\ ~isScanning
    /\ u # targetUrl
    /\ targetUrl' = u
    /\ UNCHANGED <<app, apiKeyAvailable, isScanning, logs, vulnerabilities,
                   crawlNodes, stats, runs, pendingLogs, timerOrder, session, clicks, logCalls>>

\* A call of startScan while targetUrl is empty: the first guard.  The button
\* whose onClick is startScan is rendered disabled in this state.
StartScanEmptyTarget ==
    /\ ~isScanning
    /\ targetUrl = ""
    /\ Log(EmptyTargetLines(app))
    /\ UNCHANGED <<app, apiKeyAvailable, targetUrl, isScanning, vulnerabilities,
                   crawlNodes, stats, runs, pendingLogs, timerOrder, session, clicks>>

\* A click on INITIATE / ENGAGE without an API key: the second guard of
\* startScan.  The button is disabled while targetUrl is empty and is the stop
\* button while isScanning.
StartScanNoKey ==
    /\ ~isScanning
    /\ targetUrl # ""
    /\ ~apiKeyAvailable
    /\ Log(<<NoKeyLine>>)
    /\ UNCHANGED <<app, apiKeyAvailable, targetUrl, isScanning, vulnerabilities,
                   crawlNodes, stats, runs, pendingLogs, timerOrder, session, clicks>>

\* A click on INITIATE / ENGAGE that passes both guards: startScan up to its
\* first await.  The run keeps the targetUrl and the isScanning of the render
\* the clicked closure belongs to.
StartScan ==
    /\ ~isScanning
    /\ targetUrl # ""
    /\ apiKeyAvailable
    /\ clicks < MaxClicks
    /\ clicks' = clicks + 1
    /\ LET r == session + 1
           lines == StartupLines(app, targetUrl)
       IN  /\ isScanning' = TRUE
           /\ logs' = AddLogs(app, ResetLogs(logs), lines, 1)
           /\ logCalls' = Entries(lines, 1)
           /\ vulnerabilities' = <<>>
           /\ crawlNodes' = <<>>
           /\ stats' = ZeroStats
           /\ runs' = [q \in Runs |->
                         IF q = r THEN [IdleRun EXCEPT !.pc = "sleep800",
                                                       !.target = targetUrl,
                                                       !.isScanning = isScanning]
                         ELSE IF runs[q].pc = "done" THEN Forgotten(runs[q])
                         ELSE runs[q]]
           /\ session' = r
    /\ UNCHANGED <<app, apiKeyAvailable, targetUrl, pendingLogs, timerOrder>>

\* A click on ABORT: () => setIsScanning(false).
Abort ==
    /\ app = "current"
    /\ isScanning
    /\ clicks < MaxClicks
    /\ clicks' = clicks + 1
    /\ isScanning' = FALSE
    /\ runs' = [r \in Runs |-> IF InFlight(r) THEN [runs[r] EXCEPT !.aborted = TRUE]
                               ELSE runs[r]]
    /\ UNCHANGED <<app, apiKeyAvailable, targetUrl, logs, vulnerabilities, crawlNodes,
                   stats, pendingLogs, timerOrder, session, logCalls>>

\* A click on STOP: stopScan.
StopScan ==
    /\ app = "earlier"
    /\ isScanning
    /\ clicks < MaxClicks
    /\ clicks' = clicks + 1
    /\ isScanning' = FALSE
    /\ Log(<<StopLine>>)
    /\ runs' = [r \in Runs |-> IF InFlight(r) THEN [runs[r] EXCEPT !.aborted = TRUE]
                               ELSE runs[r]]
    /\ UNCHANGED <<app, apiKeyAvailable, targetUrl, vulnerabilities, crawlNodes,
                   stats, pendingLogs, timerOrder, session>>

\* startScan from the top of the loop at index i, having logged lines since
\* its last await: either it starts tick i and awaits the request, or it
\* leaves the loop, logs the completion and runs the finally block.
Continue(r, i, lines) ==
    IF LoopContinues(app, i, runs[r].isScanning)
    THEN /\ Log(lines \o TickLines(app, i))
         /\ runs' = [runs EXCEPT ![r].pc = "awaitApi", ![r].i = i,
                                 ![r].requests = @ + 1]
         /\ UNCHANGED isScanning
    ELSE /\ Log(lines \o <<CompletionLine(app)>>)
         /\ runs' = [runs EXCEPT ![r].pc = "done", ![r].i = i]
         /\ isScanning' = Finally(FALSE, isScanning)

\* The 800 ms timer of run r fires.
Wake(r) ==
    /\ runs[r].pc = "sleep800"
    /\ crawlNodes' = IF app = "current" THEN <<rootNode>> ELSE crawlNodes
    /\ Continue(r, 0, WakeLines(app))
    /\ UNCHANGED <<app, apiKeyAvailable, targetUrl, vulnerabilities, stats,
                   pendingLogs, timerOrder, session, clicks>>

\* The request of run r settles: startScan from `await
\* analyzeTargetForSimulation` to the next await, or through catch and finally.
\* Reading .logs or .vulnerabilities of a value without them throws a TypeError.
ApiSettles(r, resp, path) ==
    /\ runs[r].pc = "awaitApi"
    /\ LET res == analyzeTargetForSimulation(runs[r].target, resp)
           sim == res.data
           m == MergeVulnerabilities(vulnerabilities, sim.vulnerabilities)
       IN  IF res.settled = "rejected" \/ sim.shape # "batch"
           THEN /\ Log(<<CatchLine(app)>>)
                /\ isScanning' = Finally(TRUE, isScanning)
                /\ runs' = [runs EXCEPT ![r].pc = "done", ![r].caught = TRUE,
                                        ![r].resp = RespClass(resp)]
                /\ UNCHANGED <<vulnerabilities, crawlNodes, stats, pendingLogs, timerOrder>>
           ELSE /\ crawlNodes' = IF app = "current"
                                 THEN Append(crawlNodes, TickNode(path, sim, runs[r].i))
                                 ELSE crawlNodes
                /\ pendingLogs' = [pendingLogs EXCEPT ![r] = @ \o sim.logs]
                /\ timerOrder' = IF sim.logs = <<>> THEN timerOrder
                                 ELSE <<r>> \o timerOrder
                /\ vulnerabilities' = m.vulns
                /\ Log(AlertLines(app, m.added))
                /\ stats' = vulnStats(stats, Len(m.added))
                /\ runs' = [runs EXCEPT ![r].pc = "sleepTick", ![r].ticks = @ + 1,
                                        ![r].resp = RespClass(resp), ![r].simData = sim]
                /\ UNCHANGED isScanning
    /\ UNCHANGED <<app, apiKeyAvailable, targetUrl, session, clicks>>

\* The timer that ends tick i of run r fires (3000 ms, 4000 ms in the
\* earlier App): i++ and the top of the loop.  The log callbacks of the tick's
\* batch were set before it with delays of idx * 150 ms (idx * 200 ms), which is
\* less for the batches of this model, so they have fired.
TickTimer(r) ==
    /\ runs[r].pc = "sleepTick"
    /\ pendingLogs[r] = <<>>
    /\ Continue(r, runs[r].i + 1, <<>>)
    /\ UNCHANGED <<app, apiKeyAvailable, targetUrl, vulnerabilities, crawlNodes,
                   stats, pendingLogs, timerOrder, session, clicks>>

\* The next delayed log callback of run r fires.  The callbacks of a batch
\* were set together with delays idx * 150 ms (idx * 200 ms): they fire in the
\* batch's order, the first at once and the others one period apart.  Timers
\* fire by expiry, so of two batches with callbacks left the one whose
\* callback fired longer ago is next: timerOrder is that order.
DelayedLog(r) ==
    /\ timerOrder # <<>>
    /\ r = Head(timerOrder)
    /\ Log(<<Head(pendingLogs[r])>>)
    /\ stats' = logStats(stats, Head(pendingLogs[r]))
    /\ pendingLogs' = [pendingLogs EXCEPT ![r] = Tail(@)]
    /\ timerOrder' = IF Tail(pendingLogs[r]) = <<>> THEN Tail(timerOrder)
                     ELSE Append(Tail(timerOrder), r)
    /\ UNCHANGED <<app, apiKeyAvailable, targetUrl, isScanning, vulnerabilities,
                   crawlNodes, runs, session, clicks>>

\* The 1000 ms interval of the isScanning effect fires.  The effect restarts
\* the interval whenever isScanning changes, so isScanning has been true for
\* a second; a run still in its 800 ms sleep set it true less than 800 ms ago.
DurationTick ==
    /\ isScanning
    /\ \A r \in Runs : runs[r].pc # "sleep800"
    /\ stats.durationSeconds < MaxDuration
    /\ stats' = durationStats(stats)
    /\ UNCHANGED <<app, apiKeyAvailable, targetUrl, isScanning, logs, vulnerabilities,
                   crawlNodes, runs, pendingLogs, timerOrder, session, clicks, logCalls>>

Next ==
    \/ \E u \in Targets : SetTargetUrl(u)
    \/ StartScanEmptyTarget
    \/ StartScanNoKey
    \/ StartScan
    \/ Abort
    \/ StopScan
    \/ \E r \in Runs : Wake(r)
    \/ \E r \in Runs, resp \in Responses, path \in Paths : ApiSettles(r, resp, path)
    \/ \E r \in Runs : TickTimer(r)
    \/ \E r \in Runs : DelayedLog(r)
    \/ DurationTick

Spec == Init /\ [][Next]_vars

\* Every timer that was set fires and every request settles: each step of a
\* run that is enabled is taken.  The clicks of the user are not fair.
Fairness ==
    \A r \in Runs :
        /\ WF_vars(Wake(r))
        /\ WF_vars(\E resp \in Responses, path \in Paths : ApiSettles(r, resp, path))
        /\ WF_vars(DelayedLog(r))
        /\ WF_vars(TickTimer(r))

LiveSpec == Spec /\ Fairness

----------------------------------------------------------------------------
(* properties *)

RunStep(r) ==
    \/ Wake(r)
    \/ TickTimer(r)
    \/ DelayedLog(r)
    \/ \E resp \in Responses, path \in Paths : ApiSettles(r, resp, path)

IsSuffix(s, t) ==
    /\ Len(s) <= Len(t)
    /\ s = SubSeq(t, Len(t) - Len(s) + 1, Len(t))

\* The entries a step handed to addLog (a step that is not a reset).
NewCalls == SubSeq(logCalls', Len(logCalls) + 1, Len(logCalls'))

NoDuplicateTypes(list) ==
    \A j, k \in 1 .. Len(list) : list[j].type = list[k].type => j = k

\* C1: the vulnerabilities list never holds two entries of the same type;
\* a step changes the list only by clearing it (the reset of startScan) or by
\* appending findings, each of a type the list did not hold yet.
C1_DedupByType ==
    [][/\ NoDuplicateTypes(vulnerabilities')
       /\ \/ vulnerabilities' = <<>>
          \/ /\ Len(vulnerabilities') >= Len(vulnerabilities)
             /\ SubSeq(vulnerabilities', 1, Len(vulnerabilities)) = vulnerabilities
             /\ \A k \in (Len(vulnerabilities) + 1) .. Len(vulnerabilities') :
                    ~HasType(SubSeq(vulnerabilities', 1, k - 1), vulnerabilities'[k].type)
      ]_vars

\* A batch with two findings of one type has been merged into a list that
\* holds the type once.
C1_Witness ==
    /\ session = 1
    /\ runs[1].ticks = 1
    /\ Len(runs[1].simData.vulnerabilities) = 2
    /\ runs[1].simData.vulnerabilities[1].type = runs[1].simData.vulnerabilities[2].type
    /\ Len(vulnerabilities) = 1

\* C2: in the current App logs never holds more than 50 entries, and an addLog
\* on a buffer of 50 drops the oldest entry and puts the new one last.
C2_LogCap ==
    [][app = "current" =>
        /\ Len(logs') <= LogKeep + 1
        /\ (Len(logs) = LogKeep + 1 /\ Len(NewCalls) = 1 /\ ~StartScan)
              => logs' = Append(Tail(logs), NewCalls[1])
      ]_vars

\* The buffer is full and its oldest entries have been dropped.
C2_Witness ==
    /\ app = "current"
    /\ Len(logs) = LogKeep + 1
    /\ logs[1].id = 3
    /\ logs[LogKeep + 1].id = LogKeep + 3

\* C3 (as claimed): a run of the current App that was not aborted and threw
\* nothing has executed 5 ticks, each with one request and one merged batch,
\* when it appends the completion log.
C3_FixedTicks ==
    \A r \in Runs :
        (app = "current" /\ runs[r].pc = "done" /\ ~runs[r].aborted /\ ~runs[r].caught)
            => (runs[r].ticks = TicksCurrent /\ runs[r].requests = TicksCurrent)

\* C4 (as claimed): at most one startScan run is in flight.
C4_OneRunInFlight == Cardinality({r \in Runs : InFlight(r)}) <= 1

\* C5 (as claimed): once a later run has reset the session, no step of an
\* earlier run changes the session state.
C5_NoStaleEffects ==
    [][\A r \in Runs : (r < session /\ RunStep(r)) => UNCHANGED ui]_vars

\* C6: a startScan of the current App that passes both guards leaves, at its
\* first await, no findings, no crawl nodes, all four counters 0, isScanning
\* true, and in logs exactly the two startup entries for its target.
C6_ResetAtStart ==
    [][(StartScan /\ app = "current") =>
        /\ vulnerabilities' = <<>>
        /\ crawlNodes' = <<>>
        /\ stats'.pagesCrawled = 0 /\ stats'.formsDetected = 0
        /\ stats'.vulnsFound = 0 /\ stats'.durationSeconds = 0
        /\ isScanning' = TRUE
        /\ Len(logs') = 2
        /\ logs'[1].level = "SYSTEM"
        /\ logs'[1].message = <<"Initializing Sentinel Agent v2.4">>
        /\ logs'[1].module = "CORE"
        /\ logs'[2].level = "INFO"
        /\ logs'[2].message = <<"Target acquired: ", targetUrl>>
        /\ logs'[2].module = "CORE"
      ]_vars

\* The second session of the current App has just started, after a first
\* run that seeded the root node and logged its completion.
C6_Witness ==
    /\ app = "current"
    /\ session = 2
    /\ runs[1].pc = "done"
    /\ runs[2].pc = "sleep800"
    /\ Len(logs) = 2
    /\ crawlNodes = <<>>

Delta(field) == stats'[field] - stats[field]

\* C7 (as claimed): every step other than the startScan reset leaves each
\* counter unchanged or increases it by exactly 1.
C7_StepsOfOne ==
    [][StartScan \/
       \A f \in {"pagesCrawled", "formsDetected", "vulnsFound", "durationSeconds"} :
           Delta(f) \in {0, 1}
      ]_vars

\* C7 (amended): no step other than the startScan reset decreases a counter;
\* pagesCrawled, formsDetected and durationSeconds grow by at most 1 in a
\* step, and vulnsFound grows by the number of findings the step appends to
\* the list.
C7_Monotonic ==
    [][StartScan \/
       /\ \A f \in {"pagesCrawled", "formsDetected", "durationSeconds"} :
              Delta(f) \in {0, 1}
       /\ Delta("vulnsFound") >= 0
       /\ Delta("vulnsFound") = Len(vulnerabilities') - Len(vulnerabilities)
      ]_vars

\* Every counter has grown in the session.
C7_Witness ==
    /\ stats.pagesCrawled > 0
    /\ stats.formsDetected > 0
    /\ stats.vulnsFound = 2
    /\ stats.durationSeconds > 0

\* C8: a request that throws, rejects or returns unparseable text resolves to
\* the fallback batch, 7 log lines and no finding, and the tick merges it:
\* startScan does not enter its catch branch.  A response without text
\* resolves to the empty batch.
C8_FallbackOnFailure ==
    \A r \in Runs :
        /\ runs[r].resp = "failed" =>
              /\ ~runs[r].caught
              /\ runs[r].ticks = runs[r].requests
              /\ runs[r].simData.shape = "batch"
              /\ Len(runs[r].simData.logs) = 7
              /\ runs[r].simData.logs[1].level = "ERROR"
              /\ runs[r].simData.logs[4].message = <<"Simulating scan for ", runs[r].target>>
              /\ runs[r].simData.vulnerabilities = <<>>
        /\ runs[r].resp = "noText" =>
              /\ ~runs[r].caught
              /\ runs[r].ticks = runs[r].requests
              /\ runs[r].simData.logs = <<>>
              /\ runs[r].simData.vulnerabilities = <<>>

\* A run whose request failed has finished without an exception, the 7
\* fallback lines in the log.
C8_Witness ==
    \E r \in Runs :
        /\ runs[r].resp = "failed"
        /\ runs[r].pc = "done"
        /\ ~runs[r].caught
        /\ pendingLogs[r] = <<>>
        /\ r = session
        /\ \E k \in 1 .. Len(logs) :
               logs[k].message = <<"Gemini Uplink Failed. Reverting to local heuristics.">>

\* The requests run r has made, from its position: one per tick entered.
RequestsByPosition(r) ==
    IF runs[r].pc \in {"awaitApi", "sleepTick"} \/ runs[r].caught
    THEN runs[r].i + 1 ELSE runs[r].i

\* C9: a run makes one request per tick it enters and none else, at most 5
\* (4 in the earlier App), and none once its finally block has run.
C9_OneRequestPerTick ==
    [][\A r \in Runs :
          /\ runs'[r].requests = RequestsByPosition(r)'
          /\ runs'[r].requests <= Ticks(app)
          /\ runs[r].pc = "done" =>
                (runs'[r].pc = "done" /\ runs'[r].requests = runs[r].requests)
      ]_vars

\* A run has finished after a failed request, having made just that one.
C9_Witness ==
    \E r \in Runs :
        /\ runs[r].pc = "done"
        /\ runs[r].resp = "failed"
        /\ runs[r].requests = 1

\* C10: logs is a trailing window of the entries handed to addLog since the
\* last reset; a step that is not a reset only drops entries from the front,
\* and only at the cap, and appends the entries it hands to addLog.
C10_AppendOnly ==
    [][/\ IsSuffix(logs', logCalls')
       /\ \/ StartScan
          \/ \E d \in 0 .. Len(logs) :
                /\ logs' = SubSeq(logs, d + 1, Len(logs)) \o NewCalls
                /\ d > 0 => (app = "current" /\ Len(logs') = LogKeep + 1)
      ]_vars

\* The buffer is a proper trailing window: entries were dropped at the front.
C10_Witness ==
    /\ Len(logCalls) > Len(logs)
    /\ Len(logs) = LogKeep + 1
    /\ logs[1] = logCalls[Len(logCalls) - LogKeep]

\* C11 (as claimed): every entry of logs has a level of LogLevel and a module
\* of the four module tags, the entries merged from a batch included.
C11_LevelsInEnum ==
    \A k \in 1 .. Len(logs) :
        logs[k].level \in LogLevel /\ logs[k].module \in Modules

\* C12 (as claimed): a run of the earlier App that the user did not stop and
\* that threw nothing has performed all 4 steps, 4 requests, when it appends
\* the completion log; a run performs fewer only if stopScan was invoked
\* while it was in flight.
C12_FourSteps ==
    \A r \in Runs :
        (app = "earlier" /\ runs[r].pc = "done" /\ ~runs[r].caught /\ ~runs[r].aborted)
            => (runs[r].ticks = StepsEarlier /\ runs[r].requests = StepsEarlier)

\* C13 (as claimed): once the user has clicked ABORT, no step of the aborted
\* run changes the session: it makes no request and appends no log entry
\* (the completion log included), no finding and no crawl node.
C13_AbortedRunIsSilent ==
    [][\A r \in Runs :
          (app = "current" /\ runs[r].aborted /\ RunStep(r)) =>
              /\ UNCHANGED <<logs, vulnerabilities, crawlNodes>>
              /\ runs'[r].requests = runs[r].requests
      ]_vars

\* C14: every startScan run that passed the guards reaches the end of its
\* finally block and leaves isScanning false, whether its try block completed
\* or threw, when every timer fires and every request settles.
C14_EveryRunFinishes ==
    \A r \in Runs : InFlight(r) ~> (runs[r].pc = "done" /\ ~isScanning)

\* One run has ended through catch and a later one by completing its loop,
\* and isScanning is false.
C14_Witness ==
    /\ ~isScanning
    /\ \E r, q \in Runs :
          /\ r < q
          /\ runs[r].pc = "done" /\ runs[r].caught
          /\ runs[q].pc = "done" /\ ~runs[q].caught /\ runs[q].ticks = 1

\* C15: whenever isScanning is true some startScan run is in flight, past its
\* reset and not yet through its finally block, and only startScan takes
\* isScanning from false to true.
C15_ScanningHasRun ==
    [][/\ isScanning' => \E r \in Runs : runs'[r].pc \notin {"idle", "done"}
       /\ (~isScanning /\ isScanning') => StartScan
      ]_vars

\* isScanning is true while two runs are in flight, the first of them aborted.
C15_Witness ==
    /\ isScanning
    /\ session = 2
    /\ runs[1].aborted /\ InFlight(1)
    /\ InFlight(2)

\* C16: the guards of startScan leave the session untouched.  With an empty
\* target the startScan of the current App changes nothing.  With a target
\* and no API key startScan hands one ERROR line to addLog and changes nothing
\* else: isScanning stays false, the entries of logs stay (but for the oldest
\* one at the cap), findings, crawl nodes and counters stay, and no run starts
\* and no request is made.
C16_GuardsLeaveSession ==
    [][/\ (StartScanEmptyTarget /\ app = "current") => UNCHANGED vars
       /\ StartScanNoKey =>
             /\ ~isScanning'
             /\ UNCHANGED <<targetUrl, vulnerabilities, crawlNodes, stats, runs,
                            pendingLogs, timerOrder, session>>
             /\ Len(NewCalls) = 1
             /\ NewCalls[1].level = "ERROR"
             /\ NewCalls[1].message = <<"API_KEY not found in environment.">>
             /\ NewCalls[1].module = "CORE"
             /\ \E d \in {0, 1} :
                   /\ logs' = Append(SubSeq(logs, d + 1, Len(logs)), NewCalls[1])
                   /\ d = 1 => (app = "current" /\ Len(logs) = LogKeep + 1)
      ]_vars

\* Two clicks without an API key have left two ERROR entries and nothing else.
C16_Witness ==
    /\ app = "current"
    /\ ~apiKeyAvailable
    /\ targetUrl # ""
    /\ Len(logs) = 2
    /\ logs[1].message = <<"API_KEY not found in environment.">>
    /\ logs[2].message = <<"API_KEY not found in environment.">>
    /\ ~isScanning /\ session = 0
    /\ vulnerabilities = <<>> /\ crawlNodes = <<>> /\ stats = ZeroStats

\* The terminal entries: the completion and the catch entry of either App.
IsTerminalLog(e) ==
    /\ e.module = "CORE"
    /\ e.message \in {<<"Mission Parameters Met. Finalizing data...">>,
                      <<"Simulation error: check console.">>,
                      <<"Scan Complete. Generating Report...">>,
                      <<"Agent connection severed unexpectedly.">>}

\* The runs whose finally block a step runs.
Finishing == {r \in Runs : runs[r].pc # "done" /\ runs'[r].pc = "done"}

\* C17: a run appends exactly one terminal entry, in the step that runs its
\* finally block and as the last entry of that step: the SUCCESS entry when
\* its try block completed, the ERROR entry when it threw.  No other step
\* appends a terminal entry, and a finished run takes no further step.
C17_OneTerminalLog ==
    [][StartScan \/
       /\ Cardinality(Finishing) <= 1
       /\ Cardinality({k \in 1 .. Len(NewCalls) : IsTerminalLog(NewCalls[k])})
              = Cardinality(Finishing)
       /\ \A r \in Finishing :
             LET e == NewCalls[Len(NewCalls)]
             IN  IF runs'[r].caught
                 THEN /\ e.level = "ERROR"
                      /\ e.message = IF app = "current"
                                     THEN <<"Simulation error: check console.">>
                                     ELSE <<"Agent connection severed unexpectedly.">>
                 ELSE /\ e.level = "SUCCESS"
                      /\ e.message = IF app = "current"
                                     THEN <<"Mission Parameters Met. Finalizing data...">>
                                     ELSE <<"Scan Complete. Generating Report...">>
       /\ \A r \in Runs : runs[r].pc = "done" => runs'[r] = runs[r]
      ]_vars

\* A run that threw has ended with the ERROR entry as the only terminal
\* entry of the log.
C17_Witness ==
    /\ session = 1
    /\ runs[1].pc = "done" /\ runs[1].caught
    /\ Cardinality({k \in 1 .. Len(logs) : IsTerminalLog(logs[k])}) = 1
    /\ logs[Len(logs)].level = "ERROR"
    /\ IsTerminalLog(logs[Len(logs)])

\* The runs that merge a batch in a step.
Merging == {r \in Runs : runs'[r].ticks = runs[r].ticks + 1}

\* C18: in the current App crawlNodes is set to the one root node (id root,
\* url /, status visited, depth 0) when the 800 ms timer of a run fires; a
\* step that merges the batch of tick i appends exactly one node, of depth
\* i + 1 and of status vuln if the batch holds a finding and visited if not;
\* no other step but the reset changes the list.  No node is pending, and a
\* list that is not empty starts with the root and holds no other root.
C18_CrawlNodes ==
    [][app = "current" =>
        /\ \A r \in Runs : Wake(r) =>
              crawlNodes' = <<[id |-> "root", url |-> "/", status |-> "visited",
                               depth |-> 0]>>
        /\ \A r \in Merging :
              /\ Len(crawlNodes') = Len(crawlNodes) + 1
              /\ SubSeq(crawlNodes', 1, Len(crawlNodes)) = crawlNodes
              /\ crawlNodes'[Len(crawlNodes')].depth = runs[r].i + 1
              /\ crawlNodes'[Len(crawlNodes')].status =
                    IF runs'[r].simData.vulnerabilities # <<>> THEN "vuln" ELSE "visited"
        /\ (Merging = {} /\ ~StartScan /\ ~\E r \in Runs : Wake(r)) => UNCHANGED crawlNodes
        /\ \A k \in 1 .. Len(crawlNodes') :
              /\ crawlNodes'[k].status \in {"visited", "vuln"}
              /\ crawlNodes'[k].id = "root" <=> k = 1
              /\ crawlNodes'[k].depth = 0 <=> k = 1
      ]_vars

\* Two runs of the current App, the first aborted, have each set the list to
\* the root: it holds the root once.
C18_Witness ==
    /\ app = "current"
    /\ session = 2
    /\ runs[1].pc = "done" /\ runs[1].aborted
    /\ runs[2].pc = "done"
    /\ Len(crawlNodes) = 1
    /\ crawlNodes[1].id = "root" /\ crawlNodes[1].status = "visited"

\* In the current App no run executes a tick, and crawlNodes is empty or the
\* root alone.
CrawlNodesRootOnly ==
    app = "current" =>
        /\ \A r \in Runs : runs[r].ticks = 0 /\ runs[r].requests = 0
        /\ crawlNodes \in {<<>>, <<rootNode>>}

====
